---------------------------- MODULE Spec2Model ----------------------------
(***************************************************************************)
(* State-machine model of ComponentStorage (src/src/component.rs): the     *)
(* type-erased component collections, the entity -> component-id table,    *)
(* the liveness list, the RefCell borrow flags of the stored components    *)
(* and the setup/update passes that run the components' hooks.             *)
(*                                                                         *)
(* A panic (Vec::remove out of range, RefCell already borrowed) ends the   *)
(* program: it is modelled by aborted = TRUE, after which no action is     *)
(* enabled.                                                                *)
(*                                                                         *)
(* The entity counter and the component ids are u32; the bounds keep them  *)
(* far below 2^32, so no wrap-around is modelled.                          *)
(*                                                                         *)
(* Spec is the whole program.  SpecStore, SpecPass, SpecDriver and         *)
(* SpecCounter take the same actions in the groups the properties are      *)
(* about: the registry and the lookups, the passes and the borrows, the    *)
(* setup-then-update lifecycle, and the one-counter end-to-end scenario.   *)
(***************************************************************************)
EXTENDS Integers, Sequences, FiniteSets, Bags, TLC

\* ------------------------------------------------------------------ bounds
MaxEntities == 2     \* create_entity calls explored
MaxCells == 2        \* components stored, over all collections
MaxVectors == 2      \* collections in component_vectors
MaxPasses == 1       \* setup_components / update_components calls explored
MaxUpdates == 1      \* update passes the lifecycle driver runs after its setup pass
MaxHeld == 1         \* Ref / RefMut values the caller keeps alive at once
MaxHookLookups == 2  \* world lookups one hook invocation performs
MaxTicks == 90       \* update passes of the single-counter scenario

\* Component types (TypeId values).  Position's hooks only touch the component
\* itself; Script's hooks also look a component up through the world argument.
Types == {"Position", "Script"}
Values == {0, 1}
\* The Vec a caller hands to add_component_vec: empty, or holding one component.
Seeds == {<<>>, <<0>>}
\* Entity handles a caller can pass: Entity(pub u32) is constructible by anyone,
\* so handles that create_entity never returned are included.
EntityArgs == 0 .. MaxEntities

VARIABLES
    component_vectors,  \* Vec<Box<dyn ComponentArray>>: <<[type, elems]>>
    component_table,    \* Vec<Option<HashMap<TypeId, u32>>>: <<[some, map]>>
    entities,           \* u32 counter
    alive_entities,     \* Vec<Entity>
    refs,               \* bag of live Ref / RefMut values [ci, idx, mut, owner]
    pass,               \* position of the running setup/update pass
    aborted,            \* a panic has unwound the program
    outcome,            \* what the last call gave its caller
    issued,             \* history: identifiers returned by create_entity
    registered,         \* history: <<entity, type>> of register_component calls
    removed,            \* history: <<entity passed to remove_entity, entities then>>
    calls               \* history: [setup, update, done] pass counters

vars == <<component_vectors, component_table, entities, alive_entities, refs,
          pass, aborted, outcome, issued, registered, removed, calls>>

storage == <<component_vectors, component_table, entities, alive_entities>>
history == <<issued, registered, removed>>

\* ------------------------------------------------------------ construction
NoPass == [kind |-> "none", ci |-> 0, ei |-> 0, inHook |-> FALSE, looked |-> 0]

\* What a call gives its caller: "ok" (it returned, with () or a plain value),
\* "absent" / "present" (the Option of a lookup), "panic" (it did not return).
Outcomes == {"ok", "absent", "present", "panic"}

Init ==
    /\ component_vectors = <<>>
    /\ component_table = <<>>
    /\ entities = 0
    /\ alive_entities = <<>>
    /\ refs = EmptyBag
    /\ pass = NoPass
    /\ aborted = FALSE
    /\ outcome = "ok"
    /\ issued = <<>>
    /\ registered = {}
    /\ removed = {}
    /\ calls = [setup |-> 0, update |-> 0, done |-> 0]


\* ---------------------------------------------------------------- helpers
\* Number of stored components, over all collections.
RECURSIVE TotalCells(_)
TotalCells(vecs) ==
    IF vecs = <<>> THEN 0
    ELSE Len(Head(vecs).elems) + TotalCells(Tail(vecs))

\* RefCell::new(component): the payload x, a free borrow flag (0: unused, n > 0:
\* n shared borrows, -1: one exclusive borrow), and the hook history of the cell
\* (setup and update invocations; unset: an update ran before any setup).
\* uid names the instance: the RefCell<T> allocated by this call, numbered in
\* allocation order.
NewCell(v, uid) ==
    [x |-> v, borrow |-> 0, setups |-> 0, updates |-> 0,
     unset |-> FALSE, uid |-> uid]

\* get_component_vec / get_component_vec_mut: position of the first collection
\* whose downcast to Vec<RefCell<T>> succeeds, 0 for None.
RECURSIVE FindVecFrom(_, _, _)
FindVecFrom(vecs, T, i) ==
    IF i > Len(vecs) THEN 0
    ELSE IF vecs[i].type = T THEN i
    ELSE FindVecFrom(vecs, T, i + 1)

get_component_vec(vecs, T) == FindVecFrom(vecs, T, 1)

\* A registration that puts the new collection in front of the others.
add_component_vec_front(vecs, T, elems) == <<[type |-> T, elems |-> elems]>> \o vecs

\* add_component_vec: push the boxed collection.
add_component_vec(vecs, T, elems) == Append(vecs, [type |-> T, elems |-> elems])

\* A returned id that is 0 whatever the collection holds.
PushedId_zero(elems) == 0

\* The value add_component returns after pushing onto an existing collection:
\* `comp_vec.len() as u32`, read after the push (the cast changes nothing below
\* 2^32 elements, far above MaxCells).
PushedId(elems) == Len(elems)

\* add_component: [vectors, id].
add_component(vecs, T, cell) ==
    LET ci == get_component_vec(vecs, T) IN
    IF ci = 0
    THEN [vectors |-> add_component_vec(vecs, T, <<cell>>), id |-> 0]
    ELSE LET pushed == Append(vecs[ci].elems, cell) IN
         [vectors |-> [vecs EXCEPT ![ci].elems = pushed], id |-> PushedId(pushed)]

\* HashMap::insert.
MapInsert(map, T, id) ==
    [k \in (DOMAIN map) \cup {T} |-> IF k = T THEN id ELSE map[k]]

EmptyMap == [k \in {} |-> 0]

\* get_entity_component_table_mut: TRUE when the entity's row is Some(map).
HasRow(table, e) == e < Len(table) /\ table[e + 1].some

\* A row write that puts the id into every entity's row.
RecordId_everyRow(table, e, T, id) ==
    [r \in 1 .. Len(table) |-> [table[r] EXCEPT !.map = MapInsert(@, T, id)]]

\* The row write of register_component; nothing is recorded without a row.
RecordId(table, e, T, id) ==
    IF HasRow(table, e)
    THEN [table EXCEPT ![e + 1].map = MapInsert(@, T, id)]
    ELSE table

\* A row lookup that clamps an out-of-range entity to the last row.
get_entity_component_id_clamped(table, T, e) ==
    LET row == IF e >= Len(table) THEN Len(table) ELSE e + 1 IN
    IF row = 0 THEN -1
    ELSE IF T \notin DOMAIN table[row].map THEN -1
    ELSE table[row].map[T]

\* get_entity_component_id: the recorded id, -1 for None.
get_entity_component_id(table, T, e) ==
    IF e >= Len(table) THEN -1
    ELSE IF ~table[e + 1].some THEN -1
    ELSE IF T \notin DOMAIN table[e + 1].map THEN -1
    ELSE table[e + 1].map[T]

NotFound == [found |-> FALSE, ci |-> 0, idx |-> 0]

\* The slot get_entity_component / get_entity_component_mut is about to borrow:
\* collection lookup, then row lookup, then Vec::get.
LookupIn(vecs, table, T, e) ==
    LET ci == get_component_vec(vecs, T) IN
    IF ci = 0 THEN NotFound
    ELSE LET id == get_entity_component_id(table, T, e) IN
         IF id = -1 THEN NotFound
         ELSE IF id >= Len(vecs[ci].elems) THEN NotFound
         ELSE [found |-> TRUE, ci |-> ci, idx |-> id + 1]

Lookup(T, e) == LookupIn(component_vectors, component_table, T, e)

\* RefCell::borrow succeeds unless an exclusive borrow is out.
CanBorrow(flag) == flag >= 0

\* An exclusive borrow that only looks for another exclusive borrow.
CanBorrowMut_writerOnly(flag) == flag >= 0

\* RefCell::borrow_mut succeeds only on an unborrowed cell.
CanBorrowMut(flag) == flag = 0

Handle(ci, idx, mut, owner) == [ci |-> ci, idx |-> idx, mut |-> mut, owner |-> owner]

BorrowFlag(ci, idx) == component_vectors[ci].elems[idx].borrow

\* The borrow flag after a Ref / RefMut is created or dropped.
Acquire(flag, mut) == IF mut THEN -1 ELSE flag + 1
Release(flag, mut) == IF mut THEN 0 ELSE flag - 1

SetFlag(vecs, ci, idx, flag) == [vecs EXCEPT ![ci].elems[idx].borrow = flag]

RefsOf(owner) == {h \in BagToSet(refs) : h.owner = owner}

\* A `&mut self` method cannot be called while a Ref / RefMut borrowed from
\* `&self` is alive, nor from a hook (which only has `&ComponentStorage`).
Idle == ~aborted /\ pass.kind = "none"
Exclusive == Idle /\ refs = EmptyBag

\* ---------------------------------------------------------------- entities
\* An identifier taken from the number of live entities.
NextEntityId_alive == Len(alive_entities)

\* The identifier create_entity hands out.
NextEntityId == entities

create_entity ==
    /\ Exclusive
    /\ LET id == NextEntityId IN
       /\ component_table' = Append(component_table, [some |-> TRUE, map |-> EmptyMap])
       /\ entities' = entities + 1
       /\ alive_entities' = Append(alive_entities, id)
       /\ issued' = Append(issued, id)
       /\ outcome' = "ok"
    /\ UNCHANGED <<component_vectors, refs, pass, aborted, registered, removed, calls>>

\* Vec::remove(index): the sequence without its index-th (0-based) element.
VecRemove(s, index) ==
    [i \in 1 .. Len(s) - 1 |-> IF i <= index THEN s[i] ELSE s[i + 1]]

\* A removal that also takes the entity's row out of component_table, moving
\* the later rows down.
remove_entity_compacting(e) ==
    /\ Exclusive
    /\ e < Len(alive_entities)
    /\ e < Len(component_table)
    /\ removed' = removed \cup {<<e, entities>>}
    /\ alive_entities' = VecRemove(alive_entities, e)
    /\ component_table' = VecRemove(component_table, e)
    /\ outcome' = "ok"
    /\ UNCHANGED <<component_vectors, entities, refs, pass, aborted,
                   issued, registered, calls>>

\* remove_entity: Vec::remove(entity.0) on the liveness list, which panics when
\* the index is out of range.
remove_entity(e) ==
    /\ Exclusive
    /\ removed' = removed \cup {<<e, entities>>}
    /\ IF e >= Len(alive_entities)
       THEN /\ aborted' = TRUE
            /\ outcome' = "panic"
            /\ UNCHANGED alive_entities
       ELSE /\ alive_entities' = VecRemove(alive_entities, e)
            /\ outcome' = "ok"
            /\ UNCHANGED aborted
    /\ UNCHANGED <<component_vectors, component_table, entities, refs, pass,
                   issued, registered, calls>>

\* ------------------------------------------------------------ registration
register_component(e, T, v) ==
    /\ Exclusive
    /\ LET added == add_component(component_vectors, T,
                                  NewCell(v, TotalCells(component_vectors) + 1)) IN
       /\ component_vectors' = added.vectors
       /\ component_table' = RecordId(component_table, e, T, added.id)
    /\ registered' = registered \cup {<<e, T>>}
    /\ outcome' = "ok"
    /\ UNCHANGED <<entities, alive_entities, refs, pass, aborted, issued, removed, calls>>

\* The public add_component_vec, called with an empty or a one-element Vec.
AddComponentVec(T, seed) ==
    /\ Exclusive
    /\ component_vectors' =
          add_component_vec(component_vectors, T,
              [i \in 1 .. Len(seed) |->
                  NewCell(seed[i], TotalCells(component_vectors) + i)])
    /\ outcome' = "ok"
    /\ UNCHANGED <<component_table, entities, alive_entities, refs, pass, aborted,
                   issued, registered, removed, calls>>


\* ------------------------------------------------------------------ borrows
GetName(mut) == IF mut THEN "get_entity_component_mut" ELSE "get_entity_component"

\* The body shared by get_entity_component (mut = FALSE) and
\* get_entity_component_mut (mut = TRUE): absent, or the slot's borrow() /
\* borrow_mut(), which panics when the RefCell refuses it.
Access(e, T, mut, owner) ==
    LET s == Lookup(T, e) IN
    IF ~s.found
    THEN /\ outcome' = "absent"
         /\ UNCHANGED <<component_vectors, refs, aborted>>
    ELSE LET flag == BorrowFlag(s.ci, s.idx)
             x == component_vectors[s.ci].elems[s.idx].x IN
         IF (IF mut THEN CanBorrowMut(flag) ELSE CanBorrow(flag))
         THEN /\ component_vectors' =
                    SetFlag(component_vectors, s.ci, s.idx, Acquire(flag, mut))
              /\ refs' = refs (+) SetToBag({Handle(s.ci, s.idx, mut, owner)})
              /\ outcome' = "present"
              /\ UNCHANGED aborted
         ELSE /\ aborted' = TRUE
              /\ outcome' = "panic"
              /\ UNCHANGED <<component_vectors, refs>>

\* The caller's get_entity_component / get_entity_component_mut.
GetEntityComponent(e, T, mut) ==
    /\ Idle
    /\ Access(e, T, mut, "caller")
    /\ UNCHANGED <<component_table, entities, alive_entities, pass, history, calls>>

\* The caller drops one of its Ref / RefMut values.
DropRef(h) ==
    /\ Idle
    /\ h \in RefsOf("caller")
    /\ refs' = refs (-) SetToBag({h})
    /\ component_vectors' =
          SetFlag(component_vectors, h.ci, h.idx, Release(BorrowFlag(h.ci, h.idx), h.mut))
    /\ UNCHANGED <<component_table, entities, alive_entities, pass, aborted, outcome,
                   history, calls>>

\* Drops every Ref / RefMut of the set S (with its copies in refs).
RECURSIVE DropAll(_, _)
DropAll(vecs, S) ==
    IF S = {} THEN vecs
    ELSE LET h == CHOOSE y \in S : TRUE
             flag == vecs[h.ci].elems[h.idx].borrow
             left == IF h.mut THEN 0 ELSE flag - CopiesIn(h, refs) IN
         DropAll(SetFlag(vecs, h.ci, h.idx, left), S \ {h})

\* A drop that forgets none of the Ref / RefMut values.
BagWithout_keep(bag, S) == bag

\* The bag of live Ref / RefMut values without those of the set S.
RECURSIVE BagWithout(_, _)
BagWithout(bag, S) ==
    IF S = {} THEN bag
    ELSE LET h == CHOOSE y \in S : TRUE IN
         BagWithout([k \in (DOMAIN bag) \ {h} |-> bag[k]], S \ {h})

\* ------------------------------------------------------------------- passes
RECURSIVE FirstPos(_, _)
\* An iteration that steps over the collection at position ci.
FirstPos_skip(vecs, ci) == IF ci + 1 > Len(vecs) THEN 0 ELSE ci + 1

\* The first non-empty collection at or after position ci, 0 when none is left.
FirstPos(vecs, ci) ==
    IF ci > Len(vecs) THEN 0
    ELSE IF Len(vecs[ci].elems) > 0 THEN ci
    ELSE FirstPos(vecs, ci + 1)

PassAt(kind, ci, ei) ==
    IF ci = 0 THEN NoPass
    ELSE [kind |-> kind, ci |-> ci, ei |-> ei, inHook |-> FALSE, looked |-> 0]

\* An iteration that ends with the collection it is in.
Advance_oneCollection(vecs, kind, ci, ei) ==
    IF ei < Len(vecs[ci].elems) THEN PassAt(kind, ci, ei + 1) ELSE NoPass

\* The element the iteration visits after (ci, ei).
Advance(vecs, kind, ci, ei) ==
    IF ei < Len(vecs[ci].elems) THEN PassAt(kind, ci, ei + 1)
    ELSE PassAt(kind, FirstPos(vecs, ci + 1), 1)

CountCall(kind, p) ==
    [calls EXCEPT ![kind] = @ + 1, !.done = IF p.kind = "none" THEN @ + 1 ELSE @]

\* setup_components() / update_components() is called; with nothing stored the
\* call returns at once.
BeginPass(kind) ==
    /\ Idle
    /\ LET p == PassAt(kind, FirstPos(component_vectors, 1), 1) IN
       /\ pass' = p
       /\ calls' = CountCall(kind, p)
       /\ outcome' = IF p.kind = "none" THEN "ok" ELSE outcome
    /\ UNCHANGED <<storage, refs, aborted, history>>

\* `let mut component = c.borrow_mut();` on the element the pass has reached.
EnterHook ==
    /\ ~aborted
    /\ pass.kind # "none"
    /\ ~pass.inHook
    /\ LET flag == BorrowFlag(pass.ci, pass.ei)
           T == component_vectors[pass.ci].type IN
       IF CanBorrowMut(flag)
       THEN /\ component_vectors' =
                  SetFlag(component_vectors, pass.ci, pass.ei, Acquire(flag, TRUE))
            /\ refs' = refs (+) SetToBag({Handle(pass.ci, pass.ei, TRUE, "driver")})
            /\ pass' = [pass EXCEPT !.inHook = TRUE]
            /\ UNCHANGED <<aborted, outcome>>
       ELSE /\ aborted' = TRUE
            /\ outcome' = "panic"
            /\ UNCHANGED <<component_vectors, refs, pass>>
    /\ UNCHANGED <<component_table, entities, alive_entities, history, calls>>

\* Whether the hooks of type T look a component up through their world argument.
\* The hooks are the user's code: of what `world: &ComponentStorage` allows, the
\* modelled hooks use the two lookups, on any entity and type.
HookReads(T) == T = "Script"

\* The running hook calls world.get_entity_component[_mut]::<T>(e).
HookLookup(e, T, mut) ==
    /\ ~aborted
    /\ pass.inHook
    /\ HookReads(component_vectors[pass.ci].type)
    /\ Access(e, T, mut, "hook")
    /\ pass' = [pass EXCEPT !.looked = @ + 1]
    /\ UNCHANGED <<component_table, entities, alive_entities, history, calls>>

\* The hook a pass of this kind invokes: component.setup(world) in
\* setup_components, component.update(world) in update_components.
HookCalled(kind) == kind

\* What the hook did to its component when it returns: update increments x.
HookEffect(hook, cell) ==
    IF hook = "update"
    THEN [cell EXCEPT !.x = @ + 1, !.updates = @ + 1,
                      !.unset = @ \/ cell.setups = 0]
    ELSE [cell EXCEPT !.setups = @ + 1]

\* The hook returns: its own Refs and the pass's RefMut are dropped and the
\* iteration moves on; after the last element the pass returns to the caller.
ExitHook ==
    /\ ~aborted
    /\ pass.inHook
    /\ LET gone == RefsOf("hook") \cup RefsOf("driver")
           freed == DropAll(component_vectors, gone)
           next == Advance(component_vectors, pass.kind, pass.ci, pass.ei) IN
       /\ component_vectors' =
             [freed EXCEPT ![pass.ci].elems[pass.ei] = HookEffect(HookCalled(pass.kind), @)]
       /\ refs' = BagWithout(refs, gone)
       /\ pass' = next
       /\ calls' = [calls EXCEPT !.done = IF next.kind = "none" THEN @ + 1 ELSE @]
       /\ outcome' = IF next.kind = "none" THEN "ok" ELSE outcome
    /\ UNCHANGED <<component_table, entities, alive_entities, aborted, history>>

\* ------------------------------------------------------------ specification
NumRefs(owner) ==
    LET S == RefsOf(owner) IN
    IF S = {} THEN 0 ELSE BagCardinality([h \in S |-> refs[h]])

\* The calls of the program's user, with their arguments drawn from the bounded
\* sets, and the steps of a running pass.
CreateEntity == entities < MaxEntities /\ create_entity

RemoveEntity == \E e \in EntityArgs : remove_entity(e)

RegisterComponent ==
    \E e \in EntityArgs, T \in Types, v \in Values :
       /\ TotalCells(component_vectors) < MaxCells
       /\ (get_component_vec(component_vectors, T) = 0
              => Len(component_vectors) < MaxVectors)
       /\ register_component(e, T, v)

AddVec ==
    \E T \in Types, seed \in Seeds :
       /\ Len(component_vectors) < MaxVectors
       /\ TotalCells(component_vectors) + Len(seed) <= MaxCells
       /\ AddComponentVec(T, seed)

Get ==
    \E e \in EntityArgs, T \in Types, mut \in BOOLEAN :
       /\ NumRefs("caller") < MaxHeld
       /\ GetEntityComponent(e, T, mut)

Drop == \E h \in RefsOf("caller") : DropRef(h)

SetupComponents == calls.setup + calls.update < MaxPasses /\ BeginPass("setup")

UpdateComponents == calls.setup + calls.update < MaxPasses /\ BeginPass("update")

HookGet ==
    \E e \in EntityArgs, T \in Types, mut \in BOOLEAN :
       /\ pass.looked < MaxHookLookups
       /\ HookLookup(e, T, mut)

\* The whole program: every call in every order.
Next ==
    \/ CreateEntity
    \/ RemoveEntity
    \/ RegisterComponent
    \/ AddVec
    \/ Get
    \/ Drop
    \/ SetupComponents
    \/ UpdateComponents
    \/ EnterHook
    \/ HookGet
    \/ ExitHook

Spec == Init /\ [][Next]_vars

\* The entity registry and the lookups, with no pass running: the calls that
\* read or write component_table, alive_entities and the entity counter.
NextStore ==
    \/ CreateEntity
    \/ RemoveEntity
    \/ RegisterComponent
    \/ AddVec
    \/ Get
    \/ Drop

SpecStore == Init /\ [][NextStore]_vars

\* The passes and the borrows: everything but remove_entity, which touches
\* only alive_entities.
NextPass ==
    \/ CreateEntity
    \/ RegisterComponent
    \/ AddVec
    \/ Get
    \/ Drop
    \/ SetupComponents
    \/ UpdateComponents
    \/ EnterHook
    \/ HookGet
    \/ ExitHook

SpecPass == Init /\ [][NextPass]_vars

\* The lifecycle driver: setup_components once, before any update_components,
\* with registrations between the passes.
DriverSetup == calls.setup = 0 /\ calls.update = 0 /\ BeginPass("setup")

DriverUpdate ==
    /\ calls.setup = 1
    /\ calls.update < MaxUpdates
    /\ BeginPass("update")

NextDriver ==
    \/ CreateEntity
    \/ RegisterComponent
    \/ AddVec
    \/ DriverSetup
    \/ DriverUpdate
    \/ EnterHook
    \/ HookGet
    \/ ExitHook

SpecDriver == Init /\ [][NextDriver]_vars

\* The end-to-end scenario: entity 0 with one Position {x: 0}, then ticks.
CounterCreate == entities = 0 /\ create_entity

CounterRegister ==
    /\ entities = 1
    /\ component_vectors = <<>>
    /\ register_component(0, "Position", 0)

CounterTick ==
    /\ component_vectors # <<>>
    /\ calls.update < MaxTicks
    /\ BeginPass("update")

CounterGet == NumRefs("caller") < MaxHeld /\ GetEntityComponent(0, "Position", FALSE)

NextCounter ==
    \/ CounterCreate
    \/ CounterRegister
    \/ CounterTick
    \/ EnterHook
    \/ ExitHook
    \/ CounterGet
    \/ Drop

SpecCounter == Init /\ [][NextCounter]_vars

\* ------------------------------------------------------------------ claims
\* The payload a lookup of type T on entity e would hand out, after the step.
FoundAfter(T, e) == LookupIn(component_vectors', component_table', T, e)
ValueAfter(T, e) == component_vectors'[FoundAfter(T, e).ci].elems[FoundAfter(T, e).idx].x

\* C1: after register_component::<T>(e, v) on an entity that has a row,
\* get_entity_component::<T>(e) is present and equal to v.
C1_RegisterThenGet ==
    [][\A e \in EntityArgs, T \in Types, v \in Values :
          (HasRow(component_table, e) /\ register_component(e, T, v))
             => (FoundAfter(T, e).found /\ ValueAfter(T, e) = v)]_vars

\* C2: the identifiers create_entity returns are 0, 1, 2, ... in call order,
\* whatever remove_entity calls come in between.
C2_IdsCountUp == \A i \in 1 .. Len(issued) : issued[i] = i - 1

\* An entity was removed and create_entity was called after that.
C2_Witness ==
    /\ Len(issued) = MaxEntities
    /\ \E r \in removed : r[2] < Len(issued)
    /\ ~aborted
    /\ Len(alive_entities) < Len(issued)

\* C3: a second register_component::<T> on the same entity makes the lookup
\* return the newer value, and leaves the older instance at its index.
C3_SecondRegistrationWins ==
    [][\A e \in EntityArgs, T \in Types, v \in Values :
          (/\ HasRow(component_table, e)
           /\ Lookup(T, e).found
           /\ register_component(e, T, v))
             => (/\ FoundAfter(T, e).found
                 /\ ValueAfter(T, e) = v
                 /\ FoundAfter(T, e) # Lookup(T, e)
                 /\ LET old == Lookup(T, e) IN
                    component_vectors'[old.ci].elems[old.idx]
                       = component_vectors[old.ci].elems[old.idx])]_vars

\* C4: once remove_entity(e) has been called, every lookup on e is absent.
C4_RemovedIsAbsent ==
    ~aborted => \A r \in removed, T \in Types : ~Lookup(T, r[1]).found

\* C5: for an identifier create_entity never returned, get_entity_component
\* and get_entity_component_mut are absent for every type, do not abort and
\* change nothing.
C5_UnknownEntityAbsent ==
    /\ [](\A e \in EntityArgs, T \in Types : e >= entities => ~Lookup(T, e).found)
    /\ [][\A e \in EntityArgs, T \in Types, mut \in BOOLEAN :
             (e >= entities /\ GetEntityComponent(e, T, mut))
                => (/\ outcome' = "absent"
                    /\ ~aborted'
                    /\ UNCHANGED <<storage, refs, pass, history, calls>>)]_vars

\* No entity exists, a collection does, and a lookup has just come back absent.
C5_Witness ==
    /\ entities = 0
    /\ component_vectors # <<>>
    /\ TotalCells(component_vectors) > 0
    /\ outcome = "absent"
    /\ ~aborted

\* C6: an existing entity e and a type U never registered for e: the lookup is
\* absent, whether or not a collection for U exists.
C6_UnregisteredTypeAbsent ==
    /\ [](\A e \in EntityArgs, U \in Types :
             (e < entities /\ <<e, U>> \notin registered) => ~Lookup(U, e).found)
    /\ [][\A e \in EntityArgs, U \in Types, mut \in BOOLEAN :
             (/\ e < entities
              /\ <<e, U>> \notin registered
              /\ GetEntityComponent(e, U, mut))
                => (outcome' = "absent" /\ ~aborted')]_vars

\* Entity 0 has no U, entity 1 has one, and a lookup has just come back absent.
C6_Witness ==
    \E U \in Types :
       /\ entities = 2
       /\ <<0, U>> \notin registered
       /\ Lookup(U, 1).found
       /\ \A T \in Types : T # U => ~Lookup(T, 1).found /\ ~Lookup(T, 0).found
       /\ outcome = "absent"
       /\ ~aborted

\* C7: register_component on an entity that has no row fails with an explicit
\* UnknownEntity outcome.
C7_RegisterUnknownEntityFails ==
    [][\A e \in EntityArgs, T \in Types, v \in Values :
          (~HasRow(component_table, e) /\ register_component(e, T, v))
             => outcome' = "UnknownEntity"]_vars

\* Live Ref (mut = FALSE) or RefMut (mut = TRUE) values on one slot.
Live(ci, idx, mut) ==
    CopiesIn(Handle(ci, idx, mut, "caller"), refs)
      + CopiesIn(Handle(ci, idx, mut, "driver"), refs)
      + CopiesIn(Handle(ci, idx, mut, "hook"), refs)

\* The slots of the storage, as <<collection, position>>.
Slots ==
    UNION {{<<ci, idx>> : idx \in 1 .. Len(component_vectors[ci].elems)} :
             ci \in 1 .. Len(component_vectors)}

\* A get_entity_component (mut = FALSE) or get_entity_component_mut (mut = TRUE)
\* call, by the caller or by the running hook.
Request(e, T, mut) == GetEntityComponent(e, T, mut) \/ HookLookup(e, T, mut)

\* C8: per slot, at most one exclusive borrow or any number of shared borrows
\* is outstanding; an exclusive request (get_entity_component_mut, or the pass
\* reaching the slot) while the slot is borrowed aborts; a shared request while
\* only shared borrows are out succeeds.
C8_BorrowDiscipline ==
    /\ [](\A s \in Slots :
             /\ Live(s[1], s[2], TRUE) <= 1
             /\ Live(s[1], s[2], TRUE) = 1 => Live(s[1], s[2], FALSE) = 0)
    /\ [][\A e \in EntityArgs, T \in Types :
             LET s == Lookup(T, e) IN
             (/\ Request(e, T, TRUE)
              /\ s.found
              /\ Live(s.ci, s.idx, TRUE) + Live(s.ci, s.idx, FALSE) > 0)
                => (aborted' /\ outcome' = "panic" /\ refs' = refs)]_vars
    /\ [][(/\ EnterHook
           /\ Live(pass.ci, pass.ei, TRUE) + Live(pass.ci, pass.ei, FALSE) > 0)
             => (aborted' /\ outcome' = "panic" /\ refs' = refs)]_vars
    /\ [][\A e \in EntityArgs, T \in Types :
             LET s == Lookup(T, e) IN
             (/\ Request(e, T, FALSE)
              /\ s.found
              /\ Live(s.ci, s.idx, TRUE) = 0)
                => (/\ ~aborted'
                    /\ outcome' = "present"
                    /\ Live(s.ci, s.idx, FALSE)' = Live(s.ci, s.idx, FALSE) + 1)]_vars

\* A component's update has asked the world for itself and the program has
\* aborted: the only live borrow is the pass's own RefMut on that component.
C8_Witness ==
    /\ aborted
    /\ outcome = "panic"
    /\ pass.kind = "update"
    /\ pass.inHook
    /\ BagToSet(refs) = {Handle(pass.ci, pass.ei, TRUE, "driver")}

\* The stored component in slot s.
Cell(s) == component_vectors[s[1]].elems[s[2]]

\* C9: Position {x: 0} on entity 0, whose update adds 1 to x: after n complete
\* update_components passes the lookup on entity 0 is present with x = n, the
\* hook having run once per pass.
C9_CounterEqualsTicks ==
    (~aborted /\ pass.kind = "none" /\ component_vectors # <<>>)
       => LET s == Lookup("Position", 0) IN
          /\ s.found
          /\ calls.done = calls.update
          /\ Cell(<<s.ci, s.idx>>).x = calls.update
          /\ Cell(<<s.ci, s.idx>>).updates = calls.update

\* The caller reads x = MaxTicks after MaxTicks passes.
C9_Witness ==
    /\ ~aborted
    /\ pass.kind = "none"
    /\ calls.update = MaxTicks
    /\ outcome = "present"
    /\ \E h \in RefsOf("caller") : Cell(<<h.ci, h.idx>>).x = MaxTicks

\* C10: with setup_components called once and update_components after it,
\* every stored component is set up exactly once and before its first update,
\* components registered after the setup pass included.
C10_SetupOnceBeforeUpdate ==
    \A s \in Slots :
       /\ Cell(s).setups <= 1
       /\ Cell(s).updates > 0 => (Cell(s).setups = 1 /\ ~Cell(s).unset)

\* The collection of type T that add_component pushes onto, <<>> when it
\* creates one.
CollectionOf(T) ==
    LET ci == get_component_vec(component_vectors, T) IN
    IF ci = 0 THEN <<>> ELSE component_vectors[ci].elems

\* C11: add_component::<T>(value), as register_component calls it, returns the
\* zero-based index at which the value now sits in T's collection: the length
\* of the collection before the append, 0 when the collection is created.
C11_AddComponentReturnsIndex ==
    [][\A e \in EntityArgs, T \in Types, v \in Values :
          register_component(e, T, v)
             => LET cell == NewCell(v, TotalCells(component_vectors) + 1)
                    added == add_component(component_vectors, T, cell)
                    ci == get_component_vec(added.vectors, T) IN
                /\ added.id = Len(CollectionOf(T))
                /\ added.id < Len(added.vectors[ci].elems)
                /\ added.vectors[ci].elems[added.id + 1] = cell
                /\ HasRow(component_table, e)
                      => component_table'[e + 1].map[T] = Len(CollectionOf(T))]_vars

\* C12: the storage holds at most one collection per component type.
C12_OneCollectionPerType ==
    \A i, j \in 1 .. Len(component_vectors) :
       component_vectors[i].type = component_vectors[j].type => i = j

\* C13: add_component_vec for a type that already has a collection is rejected
\* with a DuplicateRegistration failure and adds nothing.
C13_DuplicateCollectionRejected ==
    [][\A T \in Types, seed \in Seeds :
          (get_component_vec(component_vectors, T) # 0 /\ AddComponentVec(T, seed))
             => (/\ outcome' = "DuplicateRegistration"
                 /\ component_vectors' = component_vectors)]_vars

\* C14: collections are append-only with stable positions: no step shortens
\* component_vectors or a collection, and the instance at index i of a
\* collection is the same instance at index i after the step; allocation gives
\* every instance its own identity.
C14_AppendOnlyStable ==
    /\ [](\A s, t \in Slots : Cell(s).uid = Cell(t).uid => s = t)
    /\ [][/\ Len(component_vectors') >= Len(component_vectors)
          /\ \A ci \in 1 .. Len(component_vectors) :
                /\ component_vectors'[ci].type = component_vectors[ci].type
                /\ Len(component_vectors'[ci].elems) >= Len(component_vectors[ci].elems)
          /\ \A s \in Slots :
                component_vectors'[s[1]].elems[s[2]].uid = Cell(s).uid]_vars

\* A collection whose first instance went through an update pass and whose
\* second was appended after it, with an entity removed on the way.
C14_Witness ==
    /\ ~aborted
    /\ removed # {}
    /\ Len(alive_entities) < entities
    /\ \E ci \in 1 .. Len(component_vectors) :
          /\ Len(component_vectors[ci].elems) = 2
          /\ Cell(<<ci, 1>>).uid = 1
          /\ Cell(<<ci, 1>>).updates = 1
          /\ Cell(<<ci, 2>>).uid = 2
          /\ Cell(<<ci, 2>>).updates = 0

\* The order of `component_vectors.iter()` with `self.iter()` inside each
\* collection: the slots from collection ci on, collection by collection.
RECURSIVE SlotsFrom(_)
SlotsFrom(ci) ==
    IF ci > Len(component_vectors) THEN <<>>
    ELSE [idx \in 1 .. Len(component_vectors[ci].elems) |-> <<ci, idx>>]
            \o SlotsFrom(ci + 1)

IterationOrder == SlotsFrom(1)

\* Where the running pass is in the iteration order.
PassIndex ==
    CHOOSE i \in 1 .. Len(IterationOrder) : IterationOrder[i] = <<pass.ci, pass.ei>>

\* How often the hook of a pass of this kind has run on the cell.
HooksRun(cell, kind) == IF kind = "setup" THEN cell.setups ELSE cell.updates

\* Slot s is in no entity's row: its component is orphaned.
Orphaned(s) ==
    \A e \in EntityArgs, T \in Types :
       LET f == Lookup(T, e) IN ~(f.found /\ <<f.ci, f.idx>> = s)

\* C15: a setup/update pass starts at the first stored element, goes through
\* the collections in registration order and each collection in insertion
\* order, runs the hook exactly once on the element it is at and on no other,
\* and ends only after the last element; the storage does not change meanwhile.
C15_PassVisitsAllInOrder ==
    /\ [][\A kind \in {"setup", "update"} :
             BeginPass(kind)
                => IF IterationOrder = <<>>
                   THEN pass'.kind = "none"
                   ELSE /\ pass'.kind = kind
                        /\ <<pass'.ci, pass'.ei>> = IterationOrder[1]]_vars
    /\ [][ExitHook
             => /\ <<pass.ci, pass.ei>> \in Slots
                /\ \A s \in Slots, kind \in {"setup", "update"} :
                      HooksRun(component_vectors'[s[1]].elems[s[2]], kind)
                         = HooksRun(Cell(s), kind)
                              + (IF s = <<pass.ci, pass.ei>> /\ kind = pass.kind
                                 THEN 1 ELSE 0)
                /\ IF PassIndex = Len(IterationOrder)
                   THEN pass'.kind = "none"
                   ELSE /\ pass'.kind = pass.kind
                        /\ <<pass'.ci, pass'.ei>> = IterationOrder[PassIndex + 1]]_vars
    /\ [][~ExitHook
             => \A s \in Slots, kind \in {"setup", "update"} :
                   HooksRun(component_vectors'[s[1]].elems[s[2]], kind)
                      = HooksRun(Cell(s), kind)]_vars
    /\ [][pass.kind # "none"
             => /\ IterationOrder' = IterationOrder
                /\ (pass'.kind # "none" /\ ~ExitHook) =>
                      <<pass'.kind, pass'.ci, pass'.ei>> = <<pass.kind, pass.ci, pass.ei>>]_vars

\* The pass has run the hook on an orphaned component and is now inside the
\* hook of the next one, which belongs to an entity that was removed.
C15_Witness ==
    /\ ~aborted
    /\ pass.inHook
    /\ Len(IterationOrder) = 2
    /\ PassIndex = 2
    /\ HooksRun(Cell(IterationOrder[1]), pass.kind) = 1
    /\ Orphaned(IterationOrder[1])
    /\ Len(alive_entities) < entities
    /\ \E r \in removed, T \in Types :
          /\ Lookup(T, r[1]).found
          /\ <<Lookup(T, r[1]).ci, Lookup(T, r[1]).idx>> = IterationOrder[2]

\* The slot whose hook is running.
Current == <<pass.ci, pass.ei>>

\* The borrows of the pass driver: inside a hook its one RefMut on the current
\* element, outside a hook none.
DriverHolds ==
    IF pass.inHook
    THEN /\ RefsOf("driver") = {Handle(pass.ci, pass.ei, TRUE, "driver")}
         /\ CopiesIn(Handle(pass.ci, pass.ei, TRUE, "driver"), refs) = 1
    ELSE RefsOf("driver") = {}

\* C16 as stated: the driver holds an exclusive borrow on exactly the element
\* whose hook is running, none once the pass is over, and a hook's
\* get_entity_component on any other slot succeeds with a shared borrow.
C16_HookReadsAnyOtherSlot ==
    [][/\ DriverHolds'
       /\ \A e \in EntityArgs, T \in Types :
             LET s == Lookup(T, e) IN
             (HookLookup(e, T, FALSE) /\ s.found /\ <<s.ci, s.idx>> # Current)
                => (~aborted' /\ outcome' = "present")]_vars

\* C16, amended: the driver holds an exclusive borrow on exactly the element
\* whose hook is running and none once the pass is over; a hook's
\* get_entity_component on another slot succeeds with a shared borrow when no
\* RefMut of the caller or of the hook itself is alive on that slot, and
\* aborts when one is.
C16_DriverBorrowsOnlyCurrent ==
    /\ [](DriverHolds)
    /\ [](pass.kind = "none" => NumRefs("driver") = 0)
    /\ [][\A e \in EntityArgs, T \in Types :
             LET s == Lookup(T, e) IN
             (HookLookup(e, T, FALSE) /\ s.found /\ <<s.ci, s.idx>> # Current)
                => IF Live(s.ci, s.idx, TRUE) = 0
                   THEN /\ ~aborted'
                        /\ outcome' = "present"
                        /\ CopiesIn(Handle(s.ci, s.idx, FALSE, "hook"), refs')
                              = CopiesIn(Handle(s.ci, s.idx, FALSE, "hook"), refs) + 1
                        /\ DriverHolds'
                   ELSE /\ aborted'
                        /\ outcome' = "panic"
                        /\ Live(s.ci, s.idx, TRUE) =
                              CopiesIn(Handle(s.ci, s.idx, TRUE, "caller"), refs)
                                + CopiesIn(Handle(s.ci, s.idx, TRUE, "hook"), refs)]_vars

\* The hook of the second element of a collection holds a shared borrow on the
\* first element of the same collection, next to the driver's RefMut.
C16_Witness ==
    /\ ~aborted
    /\ pass.inHook
    /\ pass.ei = 2
    /\ outcome = "present"
    /\ RefsOf("hook") = {Handle(pass.ci, 1, FALSE, "hook")}
    /\ DriverHolds

\* C17: remove_entity(e) leaves every collection, the entity counter and the
\* rows of all other entities as they were, so the other entities' lookups
\* give what they gave.
C17_RemoveIsRowLevel ==
    [][\A e \in EntityArgs :
          remove_entity(e)
             => /\ component_vectors' = component_vectors
                /\ entities' = entities
                /\ Len(component_table') = Len(component_table)
                /\ \A o \in EntityArgs :
                      (o # e /\ o < Len(component_table))
                         => component_table'[o + 1] = component_table[o + 1]
                /\ \A o \in EntityArgs, T \in Types :
                      o # e => LookupIn(component_vectors', component_table', T, o)
                                  = Lookup(T, o)]_vars

\* One of two entities has been removed; both components are still stored and
\* the other entity's lookup still finds its own.
C17_Witness ==
    /\ ~aborted
    /\ outcome = "ok"
    /\ entities = 2
    /\ Len(alive_entities) = 1
    /\ TotalCells(component_vectors) = 2
    /\ \E r \in removed, o \in EntityArgs, T \in Types, U \in Types :
          /\ o # r[1]
          /\ alive_entities = <<o>>
          /\ Lookup(T, o).found
          /\ Lookup(U, r[1]).found

\* The entities remove_entity has been called on.
RemovedIds == {r[1] : r \in removed}

\* Every remove_entity call so far was on an entity created before the call,
\* no entity was removed twice, and every call returned.
LegalRemovals ==
    /\ ~aborted
    /\ \A r \in removed : r[1] < r[2]
    /\ Cardinality(RemovedIds) = entities - Len(alive_entities)

\* C18: when every entity is removed at most once and only after its creation,
\* remove_entity(e) returns and takes exactly e out of the liveness list, which
\* therefore holds the created and not yet removed entities in creation order.
C18_RemoveByIdentity ==
    [][\A e \in EntityArgs :
          (LegalRemovals /\ e < entities /\ e \notin RemovedIds /\ remove_entity(e))
             => (/\ ~aborted'
                 /\ alive_entities' = SelectSeq(alive_entities, LAMBDA x : x # e)
                 /\ alive_entities' = SelectSeq(issued, LAMBDA x : x \notin RemovedIds'))]_vars

\* The component id recorded for type T in the row of entity e, -1 for none.
RecordedId(e, T) == get_entity_component_id(component_table, T, e)

\* C19: every component id recorded in a row for type T is an index into T's
\* collection: the collection exists and the id is below its length.
C19_RecordedIdsValid ==
    \A e \in EntityArgs, T \in Types :
       RecordedId(e, T) # -1
          => /\ get_component_vec(component_vectors, T) # 0
             /\ RecordedId(e, T) < Len(CollectionOf(T))

\* C20: no two entities' rows hold the same component id for the same type,
\* and the id a register_component call records differs from every id
\* recorded for that type before the call.
C20_IdsNotShared ==
    /\ [](\A e, o \in EntityArgs, T \in Types :
             (e # o /\ RecordedId(e, T) # -1) => RecordedId(e, T) # RecordedId(o, T))
    /\ [][\A e \in EntityArgs, T \in Types, v \in Values :
             (HasRow(component_table, e) /\ register_component(e, T, v))
                => \A o \in EntityArgs :
                      get_entity_component_id(component_table', T, e) # RecordedId(o, T)]_vars

\* Both entities have a component of the same type recorded, the second
\* registered onto the collection the first one created.
C20_Witness ==
    \E T \in Types :
       /\ ~aborted
       /\ entities = 2
       /\ RecordedId(0, T) # -1
       /\ RecordedId(1, T) # -1
       /\ RecordedId(0, T) # RecordedId(1, T)
       /\ Len(CollectionOf(T)) = 2

=============================================================================
